---------------------------- MODULE Spec2Model ----------------------------
(***************************************************************************)
(* A model of ubik2/check-asset-references: the set helpers (src/set.ts),  *)
(* the activity diff and its markdown report (src/diff.ts) and the         *)
(* reference check of run() (src/main.ts).                                 *)
(*                                                                         *)
(* Strings whose characters matter (paths, cell values, report text) are   *)
(* sequences of one-character strings.  A JavaScript Set is a sequence     *)
(* without repetitions, in insertion order.  A JavaScript object is a      *)
(* function whose DOMAIN is its set of own keys.                           *)
(***************************************************************************)
EXTENDS Integers, Sequences, FiniteSets, TLC

VARIABLES
  \* src/set.ts: the two argument Sets, the last call and what it returned
  setA, setB, setOp, setArgs, setRet,
  \* markdownEscape (src/diff.ts): the text given and the text returned
  text, escaped, mdPc,
  \* getLogicFlags (src/diff.ts): the row given and the flag returned
  flagRow, logicFlags, flagPc,
  \* generateActivityDiff (src/diff.ts): the two tables, the media files each
  \* task file refers to, the file diff, and the report
  tableA, tableB, usedMediaFileReferences, parsedDiffResult, activityDiff, diffPc,
  \* run (src/main.ts): where the run is, the environment and inputs it read,
  \* its locals, the groups it logged, whether the run is marked failed
  \* (core.setFailed was called, or an uncaught exception ended the process),
  \* the error its catch clause caught, and how the last git command it
  \* started went
  pc, githubWorkspace, magicTasks, gitBaseSha, gitHeadSha, baseActivities,
  headActivities, taskFiles, usedTaskFiles, taskFilesIntersection, articleFiles,
  usedArticleFiles, mediaFiles, log, failed, caught, vcs

setVars == <<setA, setB, setOp, setArgs, setRet>>
mdVars == <<text, escaped, mdPc>>
flagVars == <<flagRow, logicFlags, flagPc>>
diffVars ==
  <<tableA, tableB, usedMediaFileReferences, parsedDiffResult, activityDiff, diffPc>>
runInputs == <<githubWorkspace, magicTasks, gitBaseSha, gitHeadSha>>
runLocals ==
  <<baseActivities, headActivities, taskFiles, usedTaskFiles, taskFilesIntersection,
    articleFiles, usedArticleFiles, mediaFiles>>
runVars == <<pc, runInputs, runLocals, log, failed, caught, vcs>>
vars == <<setVars, mdVars, flagVars, diffVars, runVars>>

Range(s) == {s[i] : i \in 1..Len(s)}

-----------------------------------------------------------------------------
(* src/set.ts *)

\* The number of distinct items the modelled Sets draw from
MaxItems == 3

Items == 1..MaxItems

\* Set.prototype.has
Has(s, item) == \E i \in 1..Len(s) : s[i] = item

\* Set.prototype.add: appends unless present
SetAdd(s, item) == IF Has(s, item) THEN s ELSE Append(s, item)

\* new Set(iterable)
RECURSIVE NewSet(_)
NewSet(seq) ==
  IF seq = <<>> THEN <<>>
  ELSE SetAdd(NewSet(SubSeq(seq, 1, Len(seq) - 1)), seq[Len(seq)])

\* All Sets over a finite set of items: the sequences without repetition
SetsOver(S) ==
  UNION {{q \in [1..n -> S] : \A i, j \in 1..n : i # j => q[i] # q[j]} :
         n \in 0..Cardinality(S)}

\* Each helper yields what it returns (ret) and its two arguments as the call
\* leaves them (a, b)
setSubtract_KeepsCommon(a, b) ==
  [ret |-> NewSet(SelectSeq(a, LAMBDA item : Has(b, item))), a |-> a, b |-> b]

setSubtract(a, b) ==
  [ret |-> NewSet(SelectSeq(a, LAMBDA item : ~Has(b, item))), a |-> a, b |-> b]

RECURSIVE AddAll(_, _)
AddAll(tmp, seq) ==
  IF seq = <<>> THEN tmp ELSE AddAll(SetAdd(tmp, Head(seq)), Tail(seq))

\* tmp aliases a instead of copying it
setUnion_Aliased(a, b) ==
  [ret |-> AddAll(a, b), a |-> AddAll(a, b), b |-> b]

setUnion(a, b) ==
  [ret |-> AddAll(NewSet(a), b), a |-> a, b |-> b]

setIntersection(a, b) ==
  [ret |-> NewSet(SelectSeq(a, LAMBDA item : Has(b, item))), a |-> a, b |-> b]

SetInit ==
  /\ setA \in SetsOver(Items)
  /\ setB \in SetsOver(Items)
  /\ setOp = "none"
  /\ setArgs = <<setA, setB>>
  /\ setRet = <<>>

SetIdle ==
  /\ setA = <<>>
  /\ setB = <<>>
  /\ setOp = "none"
  /\ setArgs = <<setA, setB>>
  /\ setRet = <<>>

SetCall(op, r) ==
  /\ setOp' = op
  /\ setArgs' = <<setA, setB>>
  /\ setA' = r.a
  /\ setB' = r.b
  /\ setRet' = r.ret

-----------------------------------------------------------------------------
(* src/diff.ts: markdownEscape *)

\* The longest text given to markdownEscape
MaxTextLen == 3

\* The characters the modelled texts are written in
TextChars == {"a", "\\", "*", "<", ">", ".", "/", "&"}

\* Every pattern of the list matches one literal character.  The grave accent
\* cannot be written inside a TLA+ string and is spelled "GRAVE".
markdownReplacements == <<
  <<"/", <<"\\", "/">> >>,
  <<"GRAVE", <<"\\", "GRAVE">> >>,
  <<"*", <<"\\", "*">> >>,
  <<"_", <<"\\", "_">> >>,
  <<"{", <<"\\", "{">> >>,
  <<"}", <<"\\", "}">> >>,
  <<"[", <<"\\", "[">> >>,
  <<"]", <<"\\", "]">> >>,
  <<"<", <<"&", "l", "t", ";">> >>,
  <<">", <<"&", "g", "t", ";">> >>,
  <<"(", <<"\\", "(">> >>,
  <<")", <<"\\", ")">> >>,
  <<"#", <<"\\", "#">> >>,
  <<"+", <<"\\", "+">> >>,
  <<"-", <<"\\", "-">> >>,
  <<".", <<"\\", ".">> >>,
  <<"!", <<"\\", "!">> >>,
  <<"|", <<"\\", "|">> >> >>

\* String.prototype.replace with a global one-character pattern
RECURSIVE ReplaceAll(_, _, _)
ReplaceAll(str, ch, rep) ==
  IF str = <<>> THEN <<>>
  ELSE (IF Head(str) = ch THEN rep ELSE <<Head(str)>>)
         \o ReplaceAll(Tail(str), ch, rep)

\* markdownReplacements.reduce(..., text) over the first n pairs
RECURSIVE EscapeUpTo(_, _)
EscapeUpTo(str, n) ==
  IF n = 0 THEN str
  ELSE ReplaceAll(EscapeUpTo(str, n - 1),
                  markdownReplacements[n][1], markdownReplacements[n][2])

markdownEscape(str) == EscapeUpTo(str, Len(markdownReplacements))

Texts == UNION {[1..n -> TextChars] : n \in 0..MaxTextLen}

MdInit ==
  /\ text \in Texts
  /\ escaped = <<>>
  /\ mdPc = "call"

MdIdle ==
  /\ text = <<>>
  /\ escaped = <<>>
  /\ mdPc = "idle"

Escape ==
  /\ mdPc = "call"
  /\ escaped' = markdownEscape(text)
  /\ mdPc' = "returned"
  /\ UNCHANGED text

-----------------------------------------------------------------------------
(* src/diff.ts: getLogicFlags.  A rule text is a sequence of JSON lexemes:   *)
(* the six punctuators, white space, the literals, numbers, and string       *)
(* literals written with their quotes.                                       *)

\* The longest operand list of the modelled "and" rules
MaxOperands == 2

\* A parsed JSON value: t is its type, v the lexeme of a primitive, keys the
\* own keys of an object in insertion order, items the values of an object
\* or the elements of an array
JPrim(type, lexeme) == [t |-> type, v |-> lexeme, keys |-> <<>>, items |-> <<>>]
JNull == JPrim("null", "null")
JFalse == JPrim("boolean", "false")
JTrue == JPrim("boolean", "true")
JNum(lexeme) == JPrim("number", lexeme)
JStr(lexeme) == JPrim("string", lexeme)
JArr(elements) == [t |-> "array", v |-> "", keys |-> <<>>, items |-> elements]
JObj(ks, vals) == [t |-> "object", v |-> "", keys |-> ks, items |-> vals]

WhiteSpace == {" ", "\n"}
Literals == {"null", "false", "true"}
Numbers == {"0", "1"}
StringLexemes ==
  {"\"\"", "\"dev\"", "\"var\"", "\"server.env\"", "\"==\"", "\"and\"",
   "\"or\"", "\"x\""}

\* String.prototype.trim() === ''
IsBlank(toks) == \A i \in 1..Len(toks) : toks[i] \in WhiteSpace

RECURSIVE SkipWs(_, _)
SkipWs(toks, i) ==
  IF i <= Len(toks) /\ toks[i] \in WhiteSpace THEN SkipWs(toks, i + 1) ELSE i

ParseFail == [ok |-> FALSE, val |-> JNull, next |-> 0]
ParseOk(value, n) == [ok |-> TRUE, val |-> value, next |-> n]

\* obj[key] = value: a repeated key keeps its place and takes the last value
ObjSet(obj, key, value) ==
  IF \E p \in 1..Len(obj.keys) : obj.keys[p] = key
  THEN LET p == CHOOSE q \in 1..Len(obj.keys) : obj.keys[q] = key
       IN JObj(obj.keys, [obj.items EXCEPT ![p] = value])
  ELSE JObj(Append(obj.keys, key), Append(obj.items, value))

RECURSIVE ParseValue(_, _)
RECURSIVE ParseMembers(_, _, _)
RECURSIVE ParseElements(_, _, _)

\* The members of an object from the key at or after i, added to obj
ParseMembers(toks, i, obj) ==
  LET k == SkipWs(toks, i)
      c == SkipWs(toks, k + 1)
  IN IF k > Len(toks) \/ toks[k] \notin StringLexemes THEN ParseFail
     ELSE IF c > Len(toks) \/ toks[c] # ":" THEN ParseFail
     ELSE LET r == ParseValue(toks, c + 1)
              e == SkipWs(toks, r.next)
          IN IF ~r.ok \/ e > Len(toks) THEN ParseFail
             ELSE IF toks[e] = "}"
                    THEN ParseOk(ObjSet(obj, toks[k], r.val), e + 1)
             ELSE IF toks[e] = ","
                    THEN ParseMembers(toks, e + 1, ObjSet(obj, toks[k], r.val))
             ELSE ParseFail

\* The elements of an array from the value at or after i, added to elements
ParseElements(toks, i, elements) ==
  LET r == ParseValue(toks, i)
      e == SkipWs(toks, r.next)
  IN IF ~r.ok \/ e > Len(toks) THEN ParseFail
     ELSE IF toks[e] = "]" THEN ParseOk(JArr(Append(elements, r.val)), e + 1)
     ELSE IF toks[e] = "," THEN ParseElements(toks, e + 1, Append(elements, r.val))
     ELSE ParseFail

ParseValue(toks, i) ==
  LET j == SkipWs(toks, i)
      n == SkipWs(toks, j + 1)
  IN IF j > Len(toks) THEN ParseFail
     ELSE IF toks[j] = "null" THEN ParseOk(JNull, j + 1)
     ELSE IF toks[j] \in Literals THEN ParseOk(JPrim("boolean", toks[j]), j + 1)
     ELSE IF toks[j] \in Numbers THEN ParseOk(JNum(toks[j]), j + 1)
     ELSE IF toks[j] \in StringLexemes THEN ParseOk(JStr(toks[j]), j + 1)
     ELSE IF toks[j] = "{"
       THEN IF n <= Len(toks) /\ toks[n] = "}"
              THEN ParseOk(JObj(<<>>, <<>>), n + 1)
              ELSE ParseMembers(toks, j + 1, JObj(<<>>, <<>>))
     ELSE IF toks[j] = "["
       THEN IF n <= Len(toks) /\ toks[n] = "]"
              THEN ParseOk(JArr(<<>>), n + 1)
              ELSE ParseElements(toks, j + 1, <<>>)
     ELSE ParseFail

\* JSON.parse: ok is FALSE where it throws a SyntaxError
JSONparse(toks) ==
  LET r == ParseValue(toks, 1)
  IN IF r.ok /\ SkipWs(toks, r.next) > Len(toks) THEN r ELSE ParseFail

\* JSON.stringify of a value JSON.parse can return
RECURSIVE JSONstringify(_)
RECURSIVE StringifyItems(_, _, _)
StringifyItems(value, p, sep) ==
  IF p > Len(value.items) THEN <<>>
  ELSE (IF p > 1 THEN <<sep>> ELSE <<>>)
       \o (IF value.t = "object" THEN <<value.keys[p], ":">> ELSE <<>>)
       \o JSONstringify(value.items[p])
       \o StringifyItems(value, p + 1, sep)

JSONstringify(value) ==
  IF value.t = "object" THEN <<"{">> \o StringifyItems(value, 1, ",") \o <<"}">>
  ELSE IF value.t = "array" THEN <<"[">> \o StringifyItems(value, 1, ",") \o <<"]">>
  ELSE <<value.v>>

\* The two literals isDevCheck serialises
VarServerEnv == JObj(<<"\"var\"">>, <<JStr("\"server.env\"")>>)
DevFirst == JObj(<<"\"==\"">>, <<JArr(<<JStr("\"dev\""), VarServerEnv>>)>>)
VarFirst == JObj(<<"\"==\"">>, <<JArr(<<VarServerEnv, JStr("\"dev\"")>>)>>)

\* Only the first of the two serialised forms is compared
isDevCheck_OneOrder(obj) == JSONstringify(obj) = JSONstringify(DevFirst)

isDevCheck(obj) ==
  LET serverEnvVar1 == JSONstringify(DevFirst)
      serverEnvVar2 == JSONstringify(VarFirst)
      objStr == JSONstringify(obj)
  IN objStr = serverEnvVar1 \/ objStr = serverEnvVar2

\* The flag of a row without one
null == "null"

\* !jsonLogicObj
Falsy(value) ==
  \/ value.t = "null"
  \/ value.t = "boolean" /\ value.v = "false"
  \/ value.t = "number" /\ value.v = "0"
  \/ value.t = "string" /\ value.v = "\"\""

\* args.reduce((status, obj) => status == status || isDevCheck(obj), status)
RECURSIVE ReduceDevCheck(_, _)
ReduceDevCheck(args, status) ==
  IF args = <<>> THEN status
  ELSE ReduceDevCheck(Tail(args), (status = status) \/ isDevCheck(Head(args)))

getLogicFlags(row) ==
  IF "JsonLogic" \notin DOMAIN row THEN null
  ELSE LET jsonLogic == row["JsonLogic"]
           parsed == JSONparse(jsonLogic)
           jsonLogicObj == parsed.val
       IN IF IsBlank(jsonLogic) THEN null
          ELSE IF ~parsed.ok THEN null              \* SyntaxError, caught
          ELSE IF Falsy(jsonLogicObj) THEN "disabled"
          ELSE IF isDevCheck(jsonLogicObj) THEN "dev only"
          ELSE IF jsonLogicObj.t \notin {"object", "array"}
                 THEN null        \* 'and' in a primitive: TypeError, caught
          ELSE IF \E p \in 1..Len(jsonLogicObj.keys) :
                     jsonLogicObj.keys[p] = "\"and\""
                 THEN LET p == CHOOSE q \in 1..Len(jsonLogicObj.keys) :
                                  jsonLogicObj.keys[q] = "\"and\""
                          args == jsonLogicObj.items[p]
                      IN IF args.t = "array" /\ ReduceDevCheck(args.items, FALSE)
                           THEN "dev only"
                           ELSE null
          ELSE null

\* The pieces of the template string getLogicFlagsString returns
getLogicFlagsString(row, newRow) ==
  LET logicStatusA == getLogicFlags(row)
      logicStatusB == getLogicFlags(newRow)
  IN IF logicStatusA = logicStatusB
       THEN IF logicStatusB # null THEN <<" (", logicStatusB, ")">> ELSE <<>>
     ELSE IF logicStatusA = null THEN <<" (changed to ", logicStatusB, ")">>
     ELSE IF logicStatusB = null THEN <<" (changed from ", logicStatusA, ")">>
     ELSE <<" (changed from ", logicStatusA, " to ", logicStatusB, ")">>

getLogicFlagsString1(row) ==
  LET logicStatus == getLogicFlags(row)
  IN IF logicStatus # null THEN <<" (", logicStatus, ")">> ELSE <<>>

\* The rules the modelled rows carry
RuleOperands ==
  {DevFirst, VarFirst, JNum("1"),
   JObj(<<"\"==\"">>, <<JArr(<<JNum("1"), JNum("1")>>)>>),
   JObj(<<"\"==\"">>, <<JArr(<<JStr("\"dev\""), JStr("\"dev\"")>>)>>)}

RuleValues ==
  {JNull, JFalse, JTrue, JNum("0"), JNum("1"), JStr("\"\""), JStr("\"dev\""),
   VarServerEnv, JArr(<<DevFirst>>), JObj(<<>>, <<>>),
   JObj(<<"\"and\"">>, <<DevFirst>>),
   JObj(<<"\"or\"">>, <<JArr(<<DevFirst>>)>>),
   JObj(<<"\"==\"", "\"and\"">>,
        <<JArr(<<JStr("\"dev\""), VarServerEnv>>), JArr(<<VarFirst>>)>>)}
  \cup RuleOperands
  \cup {JObj(<<"\"and\"">>, <<JArr(ops)>>) :
          ops \in UNION {[1..n -> RuleOperands] : n \in 0..MaxOperands}}

\* Each rule serialised, padded with white space, cut short, and with a
\* repeated key; and the blank texts
RuleTexts ==
  {<<>>, <<" ">>, <<"\n", " ">>, <<"{", "\"and\"", "}">>,
   <<"{", "\"==\"", ":", "1", ",", "\"==\"", ":", "[", "\"dev\"", ",", "{",
     "\"var\"", ":", "\"server.env\"", "}", "]", "}">>}
  \cup {JSONstringify(value) : value \in RuleValues}
  \cup {<<" ">> \o JSONstringify(value) \o <<"\n">> : value \in RuleValues}
  \cup {SubSeq(JSONstringify(value), 1, Len(JSONstringify(value)) - 1) :
          value \in RuleValues}

FlagRows ==
  {<<>>} \cup {[c \in {"JsonLogic"} |-> rule] : rule \in RuleTexts}

FlagInit ==
  /\ flagRow \in FlagRows
  /\ logicFlags = null
  /\ flagPc = "call"

FlagIdle ==
  /\ flagRow = <<>>
  /\ logicFlags = null
  /\ flagPc = "idle"

GetLogicFlags ==
  /\ flagPc = "call"
  /\ logicFlags' = getLogicFlags(flagRow)
  /\ flagPc' = "returned"
  /\ UNCHANGED flagRow

-----------------------------------------------------------------------------
(* src/diff.ts: the activity diff.  A Row is a function from the columns it  *)
(* has to their cells; a TaskTable and the three parts of a TableDiff are    *)
(* objects with string keys: their keys in insertion order, and the value of *)
(* each.  The parameters mediaRefs and diffFiles are the source's           *)
(* usedMediaFileReferences and parsedDiffResult.                             *)

\* The most rows of a modelled table
MaxRows == 2

\* A value that may be undefined: a path of a file-diff record, the Set of a
\* task file in usedMediaFileReferences
Undefined == [def |-> FALSE, s |-> <<>>]
Some(value) == [def |-> TRUE, s |-> value]

\* The header of the CSV file, in which csv-parse creates the keys of a Row
ColumnOrder == <<"UUID", "Title", "Action Link", "JsonLogic">>

\* Object.keys(row)
ObjectKeys(row) == SelectSeq(ColumnOrder, LAMBDA column : column \in DOMAIN row)

EmptyObject == [keys |-> <<>>, vals |-> <<>>]

\* key in object
In(key, object) == \E p \in 1..Len(object.keys) : object.keys[p] = key

\* object[key], for a key the object has
Get(object, key) ==
  object.vals[CHOOSE p \in 1..Len(object.keys) : object.keys[p] = key]

\* object[key] = value
Put(object, key, value) ==
  IF In(key, object)
  THEN [object EXCEPT
          !.vals[CHOOSE p \in 1..Len(object.keys) : object.keys[p] = key] = value]
  ELSE [keys |-> Append(object.keys, key), vals |-> Append(object.vals, value)]

\* str.replace(/\r\n/g, '\n')
RECURSIVE ReplaceCrLf(_)
ReplaceCrLf(str) ==
  IF Len(str) >= 2 /\ str[1] = "\r" /\ str[2] = "\n"
    THEN <<"\n">> \o ReplaceCrLf(SubSeq(str, 3, Len(str)))
  ELSE IF str = <<>> THEN <<>>
  ELSE <<Head(str)>> \o ReplaceCrLf(Tail(str))

\* Line endings are compared as written
getModifiedColumns_NoNewlineRule(a, b) ==
  SelectSeq(setUnion(NewSet(ObjectKeys(a)), NewSet(ObjectKeys(b))).ret,
            LAMBDA column :
              /\ column \in DOMAIN a
              /\ column \in DOMAIN b
              /\ a[column] # b[column])

getModifiedColumns(a, b) ==
  LET columns == setUnion(NewSet(ObjectKeys(a)), NewSet(ObjectKeys(b))).ret
  IN SelectSeq(columns,
               LAMBDA column :
                 /\ column \in DOMAIN a
                 /\ column \in DOMAIN b
                 /\ a[column] # b[column]
                 /\ ReplaceCrLf(a[column]) # ReplaceCrLf(b[column]))

getEscapedTitle(row) ==
  IF "Title" \in DOMAIN row /\ row["Title"] # <<>>
    THEN markdownEscape(row["Title"])
    ELSE <<"missing title">>

hasModifiedColumns(rowA, rowB) == Len(getModifiedColumns(rowA, rowB)) > 0

\* Only the new path of a record is compared
hasModifiedFile_ToOnly(filename, diffFiles) ==
  \E i \in 1..Len(diffFiles) : diffFiles[i].to = Some(filename)

\* findIndex(...) != -1: from and to are compared with the string filename
hasModifiedFile(filename, diffFiles) ==
  \E i \in 1..Len(diffFiles) :
    \/ diffFiles[i].from = Some(filename)
    \/ diffFiles[i].to = Some(filename)

\* A path that is neither undefined nor ''
Truthy(path) == path.def /\ path.s # <<>>

\* findIndex over the records from the i-th on: "true", "false", or "throw"
\* where mediaFiles.has is called on undefined (a TypeError)
RECURSIVE FindInSet(_, _, _)
FindInSet(mediaSet, diffFiles, i) ==
  IF i > Len(diffFiles) THEN "false"
  ELSE LET entry == diffFiles[i]
       IN IF Truthy(entry.from) /\ ~mediaSet.def THEN "throw"
          ELSE IF Truthy(entry.from) /\ Has(mediaSet.s, entry.from.s) THEN "true"
          ELSE IF Truthy(entry.to) /\ ~mediaSet.def THEN "throw"
          ELSE IF Truthy(entry.to) /\ Has(mediaSet.s, entry.to.s) THEN "true"
          ELSE FindInSet(mediaSet, diffFiles, i + 1)

hasModifiedFileInSet(mediaSet, diffFiles) ==
  FindInSet(mediaSet, diffFiles, 1)

\* Rows without a UUID are kept under the key ''
getTaskTable_KeepsUnkeyed(table) ==
  LET RECURSIVE Fill(_, _)
      Fill(taskTable, i) ==
        IF i > Len(table) THEN taskTable
        ELSE Fill(Put(taskTable,
                      IF "UUID" \in DOMAIN table[i] THEN table[i]["UUID"] ELSE <<>>,
                      table[i]), i + 1)
  IN Fill(EmptyObject, 1)

getTaskTable(table) ==
  LET RECURSIVE Fill(_, _)
      Fill(taskTable, i) ==
        IF i > Len(table) THEN taskTable
        ELSE IF "UUID" \in DOMAIN table[i] /\ table[i]["UUID"] # <<>>
               THEN Fill(Put(taskTable, table[i]["UUID"], table[i]), i + 1)
               ELSE Fill(taskTable, i + 1)
  IN Fill(EmptyObject, 1)

\* usedMediaFileReferences[taskFile]
MediaFilesOf(mediaRefs, taskFile) ==
  IF taskFile \in DOMAIN mediaRefs
    THEN Some(mediaRefs[taskFile])
    ELSE Undefined

\* 'Action Link' in row ? row['Action Link'] : undefined
TaskFileOf(row) ==
  IF "Action Link" \in DOMAIN row THEN Some(row["Action Link"]) ELSE Undefined

\* The callback of the filter at lines 283-295: "true", "false" or "throw"
IsModified(aDict, bDict, mediaRefs, diffFiles, key) ==
  LET taskFile == TaskFileOf(Get(bDict, key))
  IN IF hasModifiedColumns(Get(aDict, key), Get(bDict, key)) THEN "true"
     ELSE IF ~Truthy(taskFile) \/ ~diffFiles.def THEN "false"
     ELSE IF hasModifiedFile(taskFile.s, diffFiles.s) THEN "true"
     ELSE hasModifiedFileInSet(
            MediaFilesOf(mediaRefs, taskFile.s), diffFiles.s)

\* keys.forEach((key) => (object[key] = source[key])) on an empty object
Pick(keys, source) ==
  [keys |-> keys, vals |-> [p \in 1..Len(keys) |-> Get(source, keys[p])]]

\* keys.forEach((key) => (modified[key] = [aDict[key], bDict[key]]))
PickBoth(keys, aDict, bDict) ==
  [keys |-> keys,
   vals |-> [p \in 1..Len(keys) |-> <<Get(aDict, keys[p]), Get(bDict, keys[p])>>]]

\* Every common key is reported as modified
getActivityChanges_AllCommon(aDict, bDict, mediaRefs, diffFiles) ==
  LET aKeys == NewSet(aDict.keys)
      bKeys == NewSet(bDict.keys)
  IN [threw |-> FALSE,
      added |-> Pick(setSubtract(bKeys, aKeys).ret, bDict),
      removed |-> Pick(setSubtract(aKeys, bKeys).ret, aDict),
      modified |-> PickBoth(setIntersection(aKeys, bKeys).ret, aDict, bDict)]

\* threw: the filter callback raised a TypeError and nothing is returned
getActivityChanges(aDict, bDict, mediaRefs, diffFiles) ==
  LET aKeys == NewSet(aDict.keys)
      bKeys == NewSet(bDict.keys)
      common == setIntersection(aKeys, bKeys).ret
      \* what the callback of filter yields for each common key
      kept == [p \in 1..Len(common) |->
                 IsModified(aDict, bDict, mediaRefs, diffFiles, common[p])]
      filtered == {p \in 1..Len(common) : kept[p] = "true"}
      RECURSIVE Filter(_)
      Filter(p) ==
        IF p > Len(common) THEN <<>>
        ELSE (IF p \in filtered THEN <<common[p]>> ELSE <<>>) \o Filter(p + 1)
  IN IF \E p \in 1..Len(common) : kept[p] = "throw"
       THEN [threw |-> TRUE, added |-> EmptyObject, removed |-> EmptyObject,
             modified |-> EmptyObject]
       ELSE [threw |-> FALSE,
             added |-> Pick(setSubtract(bKeys, aKeys).ret, bDict),
             removed |-> Pick(setSubtract(aKeys, bKeys).ret, aDict),
             modified |-> PickBoth(Filter(1), aDict, bDict)]

\* The longest escaped cell the report quotes is one character shorter
MaxQuoted == 40

RECURSIVE Concat(_)
Concat(seqs) == IF seqs = <<>> THEN <<>> ELSE Head(seqs) \o Concat(Tail(seqs))

\* One pushed string: the pieces of its template, and in "of" the key of the
\* entry being rendered when it was pushed (<<>> for a heading)
Chunk(uuid, pieces) == [of |-> uuid, line |-> pieces]

TooltipLine(uuid) == <<"[">> \o uuid \o <<"]: ## \"">> \o uuid \o <<"\"\n">>

EntryLine(title, uuid, flags) ==
  <<" - [">> \o title \o <<"][">> \o uuid \o <<"]">> \o flags \o <<"\n">>

ColumnLine(column, rowA, rowB) ==
  LET aValue == markdownEscape(rowA[column])
      bValue == markdownEscape(rowB[column])
  IN IF Len(aValue) < MaxQuoted /\ Len(bValue) < MaxQuoted
       THEN <<"   - **", column, "** changed from \"">> \o aValue
            \o <<"\" to \"">> \o bValue \o <<"\"\n">>
       ELSE <<"   - **", column, "** changed\n">>

TaskLine(taskFile) == <<"   - **Task ">> \o taskFile \o <<"** changed\n">>

MediaLine(mediaFile) == <<"   - **Media ">> \o mediaFile \o <<"** changed\n">>

\* The chunks pushed for one entry of result.added or result.removed
RowChunks(uuid, row) ==
  <<Chunk(uuid, EntryLine(getEscapedTitle(row), uuid, getLogicFlagsString1(row)))>>

\* The chunks pushed for one entry of result.modified (lines 151-175)
ModifiedChunks(uuid, rowA, rowB, taskTableB, mediaRefs, diffFiles) ==
  LET taskFile == TaskFileOf(Get(taskTableB, uuid))
      columns == getModifiedColumns(rowA, rowB)
      mediaList ==
        IF Truthy(taskFile) /\ diffFiles.def
           /\ taskFile.s \in DOMAIN mediaRefs
          THEN SelectSeq(mediaRefs[taskFile.s],
                         LAMBDA mediaFile :
                           hasModifiedFile(mediaFile, diffFiles.s))
          ELSE <<>>
  IN <<Chunk(uuid, EntryLine(getEscapedTitle(rowB), uuid,
                             getLogicFlagsString(rowA, rowB)))>>
     \o [p \in 1..Len(columns) |-> Chunk(uuid, ColumnLine(columns[p], rowA, rowB))]
     \o (IF Truthy(taskFile) /\ diffFiles.def
            /\ hasModifiedFile(taskFile.s, diffFiles.s)
           THEN <<Chunk(uuid, TaskLine(taskFile.s))>>
           ELSE <<>>)
     \o [p \in 1..Len(mediaList) |-> Chunk(uuid, MediaLine(mediaList[p]))]

\* A section of the report: nothing for an empty part, else the heading and
\* the chunks of each entry
Section(heading, part, entries) ==
  IF Len(part.keys) > 0
    THEN <<Chunk(<<>>, <<heading>>)>> \o Concat(entries)
    ELSE <<>>

\* diffFiles is parsedDiffResult: what generateDiff returned at line 121, undefined
\* without both revisions.  threw: getActivityChanges raised; otherwise the
\* string returned is the lines of tooltips, then those of chunks, joined.
generateActivityDiff(a, b, mediaRefs, diffFiles) ==
  LET taskTableA == getTaskTable(a)
      taskTableB == getTaskTable(b)
      result == getActivityChanges(taskTableA, taskTableB, mediaRefs, diffFiles)
      added == result.added
      removed == result.removed
      modified == result.modified
      uuids == added.keys \o removed.keys \o modified.keys
  IN IF result.threw
       THEN [threw |-> TRUE, result |-> result, tooltips |-> <<>>, chunks |-> <<>>]
       ELSE [threw |-> FALSE,
             result |-> result,
             tooltips |-> [p \in 1..Len(uuids) |-> TooltipLine(uuids[p])],
             chunks |->
               Section("### New activities\n", added,
                       [p \in 1..Len(added.keys) |->
                          RowChunks(added.keys[p], added.vals[p])])
               \o Section("### Removed activities\n", removed,
                          [p \in 1..Len(removed.keys) |->
                             RowChunks(removed.keys[p], removed.vals[p])])
               \o Section("### Modified activities\n", modified,
                          [p \in 1..Len(modified.keys) |->
                             ModifiedChunks(modified.keys[p], modified.vals[p][1],
                                            modified.vals[p][2], taskTableB,
                                            mediaRefs, diffFiles)])]

\* [tooltips.join(''), chunks.join('')].join('')
Markdown(report) ==
  Concat(report.tooltips)
  \o Concat([p \in 1..Len(report.chunks) |-> report.chunks[p].line])

\* The most records of a modelled file diff
MaxDiffLen == 1

\* The number of UUIDs the rows of the modelled tables carry
MaxKeys == 2

KeyOf(k) == <<ToString(k)>>
TaskA == <<"a">>
Video1 == <<"v">>

Absent == <<"absent">>

\* The row of the given cells, without the columns whose cell is Absent
MakeRow(uuid, title, link) ==
  LET cell == [c \in {"UUID", "Title", "Action Link"} |->
                 IF c = "UUID" THEN uuid ELSE IF c = "Title" THEN title ELSE link]
  IN [c \in {d \in DOMAIN cell : cell[d] # Absent} |-> cell[c]]

\* The Title and Action Link cells of the rows of the base and of the head
\* table: titles that differ, and that differ in their line ending alone
BaseCells == {<<"A", "\n">>} \X {TaskA}
HeadCells == {<<"A", "\n">>, <<"A", "\r", "\n">>, <<"B">>} \X {TaskA, Absent}

\* The tables with at most one row for each UUID, in the order of the UUIDs
RECURSIVE RowsOf(_, _)
RowsOf(choice, k) ==
  IF k > MaxKeys THEN <<>>
  ELSE (IF choice[k] = <<>> THEN <<>>
        ELSE <<MakeRow(KeyOf(k), choice[k][1], choice[k][2])>>)
       \o RowsOf(choice, k + 1)

KeyedTables(cells) ==
  {RowsOf(choice, 1) : choice \in [1..MaxKeys -> cells \cup {<<>>}]}

\* The maps that give some of the task files a Set of media files
MediaMaps(tasks) ==
  UNION {[some -> {<<>>, <<Video1>>}] : some \in SUBSET tasks}

\* A file changed in place, added, or removed
Changed(file) == [from |-> Some(file), to |-> Some(file)]
Added(file) == [from |-> Undefined, to |-> Some(file)]
Removed(file) == [from |-> Some(file), to |-> Undefined]

DiffRecords(files) ==
  {Changed(file) : file \in files} \cup {Added(file) : file \in files}
  \cup {Removed(file) : file \in files}

\* No file diff, and the file diffs of at most MaxDiffLen of the records
FileDiffs(records) ==
  {Undefined}
  \cup {Some(files) : files \in UNION {[1..n -> records] : n \in 0..MaxDiffLen}}

NoReport == [threw |-> FALSE, result |-> <<>>, tooltips |-> <<>>, chunks |-> <<>>]

\* The cells of the richer head tables: a second task file, an empty link
TaskB == <<"b">>
ReportBaseCells == {<<"A", "\n">>} \X {TaskA, TaskB}
ReportHeadCells == {<<"A", "\n">>, <<"B">>} \X {TaskA, TaskB, <<>>, Absent}

\* The rows of the tables that may repeat a UUID or lack one
LooseRows ==
  {MakeRow(uuid, title, link) :
     uuid \in {KeyOf(k) : k \in 1..MaxKeys} \cup {<<>>, Absent},
     title \in {<<"A", "\n">>, <<"A", "\r", "\n">>, <<"B">>},
     link \in {TaskA, Absent}}

LooseTables == UNION {[1..n -> LooseRows] : n \in 0..MaxRows}

DiffInit ==
  /\ tableA \in KeyedTables(BaseCells)
  /\ tableB \in KeyedTables(HeadCells)
  /\ usedMediaFileReferences \in MediaMaps({TaskA})
  /\ parsedDiffResult \in FileDiffs(DiffRecords({TaskA}) \cup {Changed(Video1)})
  /\ activityDiff = NoReport
  /\ diffPc = "call"

ReportInit ==
  /\ tableA \in KeyedTables(ReportBaseCells)
  /\ tableB \in KeyedTables(ReportHeadCells)
  /\ usedMediaFileReferences \in MediaMaps({TaskA, TaskB})
  /\ parsedDiffResult \in FileDiffs(DiffRecords({TaskA, TaskB, Video1}))
  /\ activityDiff = NoReport
  /\ diffPc = "call"

\* A table compared with itself, no media references, no file diff
SelfInit ==
  /\ tableA \in LooseTables
  /\ tableB = tableA
  /\ usedMediaFileReferences = <<>>
  /\ parsedDiffResult = Undefined
  /\ activityDiff = NoReport
  /\ diffPc = "call"

\* The tables whose rows may lack a UUID, have an empty one, or share one
RepeatRows(titles) ==
  {MakeRow(uuid, title, TaskA) :
     uuid \in {KeyOf(1), KeyOf(2), <<>>, Absent}, title \in titles}

RepeatTables(titles) == UNION {[1..n -> RepeatRows(titles)] : n \in 0..MaxRows}

\* Two such tables, no media references, no file diff
TableInit ==
  /\ tableA \in RepeatTables({<<"A">>})
  /\ tableB \in RepeatTables({<<"A">>, <<"B">>})
  /\ usedMediaFileReferences = <<>>
  /\ parsedDiffResult = Undefined
  /\ activityDiff = NoReport
  /\ diffPc = "call"

DiffIdle ==
  /\ tableA = <<>>
  /\ tableB = <<>>
  /\ usedMediaFileReferences = <<>>
  /\ parsedDiffResult = Undefined
  /\ activityDiff = NoReport
  /\ diffPc = "idle"

GenerateActivityDiff ==
  /\ diffPc = "call"
  /\ activityDiff' = generateActivityDiff(tableA, tableB, usedMediaFileReferences,
                                          parsedDiffResult)
  /\ diffPc' = IF activityDiff'.threw THEN "threw" ELSE "returned"
  /\ UNCHANGED <<tableA, tableB, usedMediaFileReferences, parsedDiffResult>>

-----------------------------------------------------------------------------
(* src/main.ts: the helpers of run.  A call that may throw yields ok (FALSE   *)
(* where it throws) and, in s, what it returns.                              *)

\* The characters of the code points 0 to 127; the control characters are
\* spelled by name
Ascii == <<
  "NUL", "x01", "x02", "x03", "x04", "x05", "x06", "x07",
  "x08", "TAB", "\n", "x0B", "x0C", "\r", "x0E", "x0F",
  "x10", "x11", "x12", "x13", "x14", "x15", "x16", "x17",
  "x18", "x19", "x1A", "x1B", "x1C", "x1D", "x1E", "x1F",
  " ", "!", "\"", "#", "$", "%", "&", "'",
  "(", ")", "*", "+", ",", "-", ".", "/",
  "0", "1", "2", "3", "4", "5", "6", "7",
  "8", "9", ":", ";", "<", "=", ">", "?",
  "@", "A", "B", "C", "D", "E", "F", "G",
  "H", "I", "J", "K", "L", "M", "N", "O",
  "P", "Q", "R", "S", "T", "U", "V", "W",
  "X", "Y", "Z", "[", "\\", "]", "^", "_",
  "GRAVE", "a", "b", "c", "d", "e", "f", "g",
  "h", "i", "j", "k", "l", "m", "n", "o",
  "p", "q", "r", "s", "t", "u", "v", "w",
  "x", "y", "z", "{", "|", "}", "~", "DEL" >>

HexValue ==
  "0" :> 0 @@ "1" :> 1 @@ "2" :> 2 @@ "3" :> 3 @@ "4" :> 4 @@ "5" :> 5 @@ "6" :> 6 @@ "7" :> 7 @@ "8" :> 8 @@ "9" :> 9 @@ "a" :> 10 @@ "b" :> 11 @@ "c" :> 12 @@ "d" :> 13 @@ "e" :> 14 @@ "f" :> 15
  @@ "A" :> 10 @@ "B" :> 11 @@ "C" :> 12 @@ "D" :> 13 @@ "E" :> 14 @@ "F" :> 15

\* The characters decodeURI leaves escaped
UriReserved == {";", "/", "?", ":", "@", "&", "=", "+", "$", ",", "#"}

Threw == [ok |-> FALSE, s |-> <<>>]
Returned(value) == [ok |-> TRUE, s |-> value]

\* Decode of ECMA-262 on a text whose escapes are single bytes: an escape that
\* is cut short or not hexadecimal, and a byte of 0x80 or more that no
\* continuation byte follows, is a URIError
RECURSIVE Decode(_, _)
Decode(str, reserved) ==
  IF str = <<>> THEN Returned(<<>>)
  ELSE IF Head(str) # "%"
    THEN LET rest == Decode(Tail(str), reserved)
         IN IF rest.ok THEN Returned(<<Head(str)>> \o rest.s) ELSE Threw
  ELSE IF Len(str) < 3 \/ str[2] \notin DOMAIN HexValue
          \/ str[3] \notin DOMAIN HexValue
    THEN Threw
  ELSE LET code == 16 * HexValue[str[2]] + HexValue[str[3]]
           rest == Decode(SubSeq(str, 4, Len(str)), reserved)
       IN IF code >= 128 \/ ~rest.ok THEN Threw
          ELSE IF Ascii[code + 1] \in reserved
                 THEN Returned(SubSeq(str, 1, 3) \o rest.s)
          ELSE Returned(<<Ascii[code + 1]>> \o rest.s)

decodeURIComponent(str) == Decode(str, {})

decodeURI(str) == Decode(str, UriReserved)

\* String.prototype.split(','): the pieces between the commas
RECURSIVE Split(_, _)
Split(str, piece) ==
  IF str = <<>> THEN <<piece>>
  ELSE IF Head(str) = "," THEN <<piece>> \o Split(Tail(str), <<>>)
  ELSE Split(Tail(str), Append(piece, Head(str)))

\* The cell is added as it is written
getReferencedFiles_Raw(records, key) ==
  Returned(NewSet(SelectSeq([i \in 1..Len(records) |->
                              IF key \in DOMAIN records[i]
                                THEN records[i][key] ELSE <<>>],
                           LAMBDA cell : cell # <<>>)))

getReferencedFiles(records, key) ==
  LET RECURSIVE Collect(_, _)
      Collect(files, i) ==
        IF i > Len(records) THEN Returned(files)
        ELSE IF key \in DOMAIN records[i] /\ records[i][key] # <<>>
          THEN LET decoded == decodeURIComponent(records[i][key])
               IN IF decoded.ok THEN Collect(SetAdd(files, decoded.s), i + 1)
                  ELSE Threw
        ELSE Collect(files, i + 1)
  IN Collect(<<>>, 1)

\* What JSON.parse makes of a task file: ok is FALSE where parsing, or the
\* read of taskInfo['steps'].length, throws; a step has a videoUrl, an
\* audioUrl, both or neither
BadTaskInfo == [ok |-> FALSE, steps |-> <<>>]
TaskInfo(steps) == [ok |-> TRUE, steps |-> steps]
Step(video, audio) == [videoUrl |-> video, audioUrl |-> audio]

\* The body of the loop over taskInfo['steps'] (lines 54-62)
RECURSIVE StepFiles(_, _, _)
StepFiles(files, steps, i) ==
  IF i > Len(steps) THEN Returned(files)
  ELSE LET video == IF steps[i].videoUrl.def
                      THEN decodeURI(steps[i].videoUrl.s) ELSE Returned(<<>>)
           audio == IF steps[i].audioUrl.def
                      THEN decodeURI(steps[i].audioUrl.s) ELSE Returned(<<>>)
           withVideo == IF steps[i].videoUrl.def THEN SetAdd(files, video.s)
                        ELSE files
           withAudio == IF steps[i].audioUrl.def THEN SetAdd(withVideo, audio.s)
                        ELSE withVideo
       IN IF ~video.ok \/ ~audio.ok THEN Threw
          ELSE StepFiles(withAudio, steps, i + 1)

\* disk gives the content of each task file that exists
getReferencedMediaFiles(disk, existing) ==
  LET found == [taskFile \in Range(existing) |->
                  IF disk[taskFile].ok
                    THEN StepFiles(<<>>, disk[taskFile].steps, 1)
                    ELSE Threw]
  IN IF \E taskFile \in Range(existing) : ~found[taskFile].ok THEN Threw
     ELSE Returned([taskFile \in Range(existing) |-> found[taskFile].s])

\* One call of logGroup that logs: nothing is logged for an empty Set
logGroup(files, message, isError) ==
  IF Len(files) > 0
    THEN <<[message |-> message, files |-> files, isError |-> isError]>>
    ELSE <<>>

\* Object.values(usedMediaFileReferences).reduce(setUnion, new Set()), the
\* values in the order the task files were inserted
RECURSIVE UnionOfValues(_, _, _)
UnionOfValues(accum, mediaRefs, tasks) ==
  IF tasks = <<>> THEN accum
  ELSE UnionOfValues(setUnion(accum, mediaRefs[Head(tasks)]).ret, mediaRefs,
                     Tail(tasks))

\* usedTaskFiles.add(element) for each non-empty piece of magic_tasks
RECURSIVE AddMagicTasks(_, _)
AddMagicTasks(usedFiles, elements) ==
  IF elements = <<>> THEN usedFiles
  ELSE AddMagicTasks(IF Head(elements) # <<>>
                       THEN SetAdd(usedFiles, Head(elements)) ELSE usedFiles,
                     Tail(elements))

\* Missing article files fail the run as well
FailsOnMissing_AnyMissing(missingTasks, missingMedia, missingArticles) ==
  Len(missingTasks) > 0 \/ Len(missingMedia) > 0 \/ Len(missingArticles) > 0

\* The condition of line 145
FailsOnMissing(missingTasks, missingMedia, missingArticles) ==
  Len(missingTasks) > 0 \/ Len(missingMedia) > 0

-----------------------------------------------------------------------------
(* src/main.ts: run.  Each action is the code between two awaits that read   *)
(* the environment, with the catch clause of lines 148-150 where it throws.  *)
(* What the run reads (environment, inputs, git output, files) is chosen     *)
(* where it is read.                                                         *)

TaskEncodedB == <<"%", "6", "2">>
Video2 == <<"w">>
VideoEncoded1 == <<"%", "7", "6">>
Article1 == <<"h">>
Sha == <<"5">>

\* The Action Link cells of the head manifest: a path, a path with an escape
\* (of "b"), a malformed escape, an empty cell
RunLinks == {TaskA, TaskEncodedB, <<"%">>, <<>>}

\* The tables of at most MaxRows rows, the p-th with the p-th UUID
RunTables(links) ==
  UNION {{[p \in 1..n |-> MakeRow(KeyOf(p), <<"A">>, choice[p])] :
            choice \in [1..n -> links]} : n \in 0..MaxRows}

\* magic_tasks: not given, two paths with an empty piece between them, a path
\* with an escape
MagicInputs == {<<>>, <<"a", ",", ",", "c">>, TaskEncodedB}

\* What the glob of tasks/*.json, of video/* and of articles/*.html finds
TaskFilesOnDisk == {<<>>, <<TaskA>>, <<TaskB>>, <<TaskA, TaskB>>}
MediaFilesOnDisk == {<<>>, <<Video1>>, <<Video1, Video2>>}
ArticleFilesOnDisk == {<<>>, <<Article1>>}

\* The contents of a task file: not JSON, no steps, a step with both urls
TaskInfos ==
  {BadTaskInfo, TaskInfo(<<>>), TaskInfo(<<Step(Some(VideoEncoded1), Some(Video2))>>)}

\* The articles manifest: empty, or one row
ArticleTables == {<<>>, <<[c \in {"Article Link"} |-> Article1]>>}

\* How a git command started by spawn can go: it prints what was asked for;
\* it exits with a status other than 0, its complaint on the standard error
\* that nothing reads and nothing on its standard output (unknown revision,
\* not a repository); its standard output emits 'error'; it cannot be started
\* (no git, no such directory), and the child emits 'error'
GitOutcomes == {"resolves", "exits", "stream error", "spawn error"}

\* src/diff.ts 44-52: the Buffer the promise resolves with.  The exit status
\* of the child is not looked at
streamToBuffer(outcome, printed) == IF outcome = "resolves" THEN printed ELSE <<>>

\* src/diff.ts 71-77: an empty Buffer parses to the empty table
loadActivities(outcome, table) == streamToBuffer(outcome, table)

\* src/diff.ts 59-62: parseDiff of the empty string is the empty list
generateDiff(outcome, files) == streamToBuffer(outcome, files)

\* The records git diff may print
RunFiles == {<<>>, <<Changed(Video1)>>}

RunInit ==
  /\ pc = "start"
  /\ githubWorkspace = FALSE
  /\ magicTasks = <<>>
  /\ gitBaseSha = <<>>
  /\ gitHeadSha = <<>>
  /\ baseActivities = Undefined
  /\ headActivities = <<>>
  /\ taskFiles = <<>>
  /\ usedTaskFiles = <<>>
  /\ taskFilesIntersection = <<>>
  /\ articleFiles = <<>>
  /\ usedArticleFiles = <<>>
  /\ mediaFiles = <<>>
  /\ log = <<>>
  /\ failed = FALSE
  /\ caught = "none"
  /\ vcs = "unused"

RunIdle ==
  /\ pc = "idle"
  /\ githubWorkspace = FALSE
  /\ magicTasks = <<>>
  /\ gitBaseSha = <<>>
  /\ gitHeadSha = <<>>
  /\ baseActivities = Undefined
  /\ headActivities = <<>>
  /\ taskFiles = <<>>
  /\ usedTaskFiles = <<>>
  /\ taskFilesIntersection = <<>>
  /\ articleFiles = <<>>
  /\ usedArticleFiles = <<>>
  /\ mediaFiles = <<>>
  /\ log = <<>>
  /\ failed = FALSE
  /\ caught = "none"
  /\ vcs = "unused"

\* Lines 148-150: the error is caught and the run is marked failed
Catch(err) ==
  /\ caught' = err
  /\ failed' = TRUE
  /\ pc' = "done"

\* No listener is on the child's 'error' event: the exception is thrown
\* outside the try block of run and ends the process with exit status 1
Crash ==
  /\ failed' = TRUE
  /\ pc' = "crashed"
  /\ UNCHANGED caught

\* src/diff.ts 50: the promise is rejected, the await in run throws
GitAborts(outcome) ==
  IF outcome = "stream error" THEN Catch("Error reading stream") ELSE Crash

\* Lines 70-82
ReadInputs ==
  /\ pc = "start"
  /\ \E workspace \in BOOLEAN, magic \in MagicInputs, base \in {<<>>, Sha},
        head \in {<<>>, Sha} :
       /\ githubWorkspace' = workspace
       /\ magicTasks' = magic
       /\ gitBaseSha' = base
       /\ gitHeadSha' = head
       /\ IF ~workspace THEN Catch("Error")
          ELSE pc' = "loadBase" /\ UNCHANGED <<failed, caught>>
  /\ UNCHANGED <<runLocals, log, vcs, usedMediaFileReferences, parsedDiffResult,
                 activityDiff>>

\* Lines 83-85: git show prints the base manifest, or nothing
LoadBase ==
  /\ pc = "loadBase"
  /\ IF gitBaseSha # <<>>
       THEN \E outcome \in GitOutcomes, table \in RunTables({TaskA}) :
              /\ vcs' = outcome
              /\ IF outcome \in {"stream error", "spawn error"}
                   THEN GitAborts(outcome) /\ UNCHANGED baseActivities
                   ELSE /\ baseActivities' = Some(loadActivities(outcome, table))
                        /\ pc' = "generateDiff"
                        /\ UNCHANGED <<failed, caught>>
       ELSE /\ baseActivities' = Undefined
            /\ pc' = "generateDiff"
            /\ UNCHANGED <<failed, caught, vcs>>
  /\ UNCHANGED <<runInputs, headActivities, taskFiles, usedTaskFiles,
                 taskFilesIntersection, articleFiles, usedArticleFiles, mediaFiles,
                 log, usedMediaFileReferences, parsedDiffResult, activityDiff>>

\* Lines 87-89: what generateDiff returns here is not kept
GenerateDiff ==
  /\ pc = "generateDiff"
  /\ IF gitBaseSha # <<>> /\ gitHeadSha # <<>>
       THEN \E outcome \in GitOutcomes :
              /\ vcs' = outcome
              /\ IF outcome \in {"stream error", "spawn error"}
                   THEN GitAborts(outcome)
                   ELSE pc' = "loadHead" /\ UNCHANGED <<failed, caught>>
       ELSE pc' = "loadHead" /\ UNCHANGED <<failed, caught, vcs>>
  /\ UNCHANGED <<runInputs, runLocals, log, usedMediaFileReferences,
                 parsedDiffResult, activityDiff>>

\* Lines 91-98
LoadHead ==
  /\ pc = "loadHead"
  /\ \E table \in RunTables(RunLinks), tasks \in TaskFilesOnDisk,
        articles \in ArticleTables, htmls \in ArticleFilesOnDisk :
       LET used == getReferencedFiles(table, "Action Link")
           common == setIntersection(used.s, tasks).ret
           usedArticles == getReferencedFiles(articles, "Article Link")
       IN /\ headActivities' = table
          /\ taskFiles' = tasks
          /\ IF ~used.ok
               THEN /\ Catch("URIError")
                    /\ UNCHANGED <<usedTaskFiles, taskFilesIntersection,
                                   usedMediaFileReferences, articleFiles,
                                   usedArticleFiles>>
               ELSE \E disk \in [Range(common) -> TaskInfos] :
                      LET references == getReferencedMediaFiles(disk, common)
                      IN /\ usedTaskFiles' = used.s
                         /\ taskFilesIntersection' = common
                         /\ IF ~references.ok
                              THEN /\ Catch("SyntaxError")
                                   /\ UNCHANGED <<usedMediaFileReferences,
                                                  articleFiles, usedArticleFiles>>
                              ELSE /\ usedMediaFileReferences' = references.s
                                   /\ articleFiles' = htmls
                                   /\ usedArticleFiles' = usedArticles.s
                                   /\ pc' = "report"
                                   /\ UNCHANGED <<failed, caught>>
  /\ UNCHANGED <<runInputs, baseActivities, mediaFiles, log, vcs,
                 parsedDiffResult, activityDiff>>

\* Lines 100-114: the report is written to the summary
ReportChanges ==
  /\ pc = "report"
  /\ IF baseActivities.def
       THEN LET both == gitBaseSha # <<>> /\ gitHeadSha # <<>>
            IN \E outcome \in IF both THEN GitOutcomes ELSE {vcs},
                  files \in IF both THEN RunFiles ELSE {<<>>} :
                 LET diffFiles == IF both THEN Some(generateDiff(outcome, files))
                                  ELSE Undefined
                 IN /\ vcs' = outcome
                    /\ IF outcome \in {"stream error", "spawn error"}
                         THEN /\ GitAborts(outcome)
                              /\ UNCHANGED <<parsedDiffResult, activityDiff>>
                         ELSE /\ parsedDiffResult' = diffFiles
                              /\ activityDiff' =
                                   generateActivityDiff(baseActivities.s,
                                                        headActivities,
                                                        usedMediaFileReferences,
                                                        diffFiles)
                              /\ IF activityDiff'.threw THEN Catch("TypeError")
                                 ELSE pc' = "check" /\ UNCHANGED <<failed, caught>>
       ELSE /\ pc' = "check"
            /\ UNCHANGED <<parsedDiffResult, activityDiff, failed, caught, vcs>>
  /\ UNCHANGED <<runInputs, runLocals, log, usedMediaFileReferences>>

\* Lines 115-147
CheckReferences ==
  /\ pc = "check"
  /\ \E videos \in MediaFilesOnDisk :
       LET used == AddMagicTasks(usedTaskFiles, Split(magicTasks, <<>>))
           missingTaskFiles == setSubtract(used, taskFiles).ret
           unusedTaskFiles == setSubtract(taskFiles, used).ret
           usedMediaFiles == UnionOfValues(<<>>, usedMediaFileReferences,
                                           taskFilesIntersection)
           missingMediaFiles == setSubtract(usedMediaFiles, videos).ret
           unusedMediaFiles == setSubtract(videos, usedMediaFiles).ret
           missingArticleFiles == setSubtract(usedArticleFiles, articleFiles).ret
           unusedArticleFiles == setSubtract(articleFiles, usedArticleFiles).ret
       IN /\ usedTaskFiles' = used
          /\ mediaFiles' = videos
          /\ log' = logGroup(missingTaskFiles, "Missing task files", TRUE)
                    \o logGroup(unusedTaskFiles, "Unused task files", FALSE)
                    \o logGroup(missingMediaFiles, "Missing media files", TRUE)
                    \o logGroup(unusedMediaFiles, "Unused media files", FALSE)
                    \o logGroup(missingArticleFiles, "Missing article files", TRUE)
                    \o logGroup(unusedArticleFiles, "Unused article files", FALSE)
          /\ failed' = FailsOnMissing(missingTaskFiles, missingMediaFiles,
                                      missingArticleFiles)
  /\ pc' = "done"
  /\ UNCHANGED <<runInputs, baseActivities, headActivities, taskFiles,
                 taskFilesIntersection, articleFiles, usedArticleFiles, caught, vcs,
                 usedMediaFileReferences, parsedDiffResult, activityDiff>>

-----------------------------------------------------------------------------
(* Specifications *)

CallSubtract ==
  /\ setOp = "none"
  /\ SetCall("subtract", setSubtract(setA, setB))
  /\ UNCHANGED <<mdVars, flagVars, diffVars, runVars>>

CallUnion ==
  /\ setOp = "none"
  /\ SetCall("union", setUnion(setA, setB))
  /\ UNCHANGED <<mdVars, flagVars, diffVars, runVars>>

CallIntersection ==
  /\ setOp = "none"
  /\ SetCall("intersection", setIntersection(setA, setB))
  /\ UNCHANGED <<mdVars, flagVars, diffVars, runVars>>

SetNext == CallSubtract \/ CallUnion \/ CallIntersection

InitSet == SetInit /\ MdIdle /\ FlagIdle /\ DiffIdle /\ RunIdle

SpecSet == InitSet /\ [][SetNext]_vars

CallEscape == Escape /\ UNCHANGED <<setVars, flagVars, diffVars, runVars>>

EscapeNext == CallEscape

InitEscape == SetIdle /\ MdInit /\ FlagIdle /\ DiffIdle /\ RunIdle

SpecEscape == InitEscape /\ [][EscapeNext]_vars

CallGetLogicFlags == GetLogicFlags /\ UNCHANGED <<setVars, mdVars, diffVars, runVars>>

FlagNext == CallGetLogicFlags

InitFlags == SetIdle /\ MdIdle /\ FlagInit /\ DiffIdle /\ RunIdle

SpecFlags == InitFlags /\ [][FlagNext]_vars

CallGenerateActivityDiff ==
  GenerateActivityDiff /\ UNCHANGED <<setVars, mdVars, flagVars, runVars>>

DiffNext == CallGenerateActivityDiff

InitDiff == SetIdle /\ MdIdle /\ FlagIdle /\ DiffInit /\ RunIdle

SpecDiff == InitDiff /\ [][DiffNext]_vars

InitReport == SetIdle /\ MdIdle /\ FlagIdle /\ ReportInit /\ RunIdle

SpecReport == InitReport /\ [][DiffNext]_vars

InitSelf == SetIdle /\ MdIdle /\ FlagIdle /\ SelfInit /\ RunIdle

SpecSelf == InitSelf /\ [][DiffNext]_vars

InitTable == SetIdle /\ MdIdle /\ FlagIdle /\ TableInit /\ RunIdle

SpecTable == InitTable /\ [][DiffNext]_vars

\* What run leaves alone
idleVars == <<setVars, mdVars, flagVars, tableA, tableB, diffPc>>

RunReadInputs == ReadInputs /\ UNCHANGED idleVars

RunLoadBase == LoadBase /\ UNCHANGED idleVars

RunGenerateDiff == GenerateDiff /\ UNCHANGED idleVars

RunLoadHead == LoadHead /\ UNCHANGED idleVars

RunReportChanges == ReportChanges /\ UNCHANGED idleVars

RunCheckReferences == CheckReferences /\ UNCHANGED idleVars

Next ==
  \/ RunReadInputs
  \/ RunLoadBase
  \/ RunGenerateDiff
  \/ RunLoadHead
  \/ RunReportChanges
  \/ RunCheckReferences

Init == SetIdle /\ MdIdle /\ FlagIdle /\ DiffIdle /\ RunInit

Spec == Init /\ [][Next]_vars


-----------------------------------------------------------------------------
(* Claims *)

\* C4: for all Sets A and B, setSubtract(A,A) is empty, setUnion(A, empty)
\* equals A, setIntersection(A,B) and setIntersection(B,A) hold the same
\* items, setUnion(setSubtract(A,B), setIntersection(A,B)) holds the items of
\* A, and a call of any of the three leaves both of its arguments as they were.
C4_SetAlgebra ==
  /\ setSubtract(setA, setA).ret = <<>>
  /\ setUnion(setA, <<>>).ret = setA
  /\ Range(setIntersection(setA, setB).ret)
       = Range(setIntersection(setB, setA).ret)
  /\ Range(setUnion(setSubtract(setA, setB).ret,
                    setIntersection(setA, setB).ret).ret) = Range(setA)
  /\ setOp # "none" => <<setA, setB>> = setArgs

C4_Witness ==
  /\ setOp = "union"
  /\ Range(setA) \cap Range(setB) # {}
  /\ Range(setA) \ Range(setB) # {}
  /\ Range(setB) \ Range(setA) # {}

\* The characters markdownEscape is to protect
Protected ==
  {"/", "GRAVE", "*", "_", "{", "}", "[", "]", "(", ")", "#", "+", "-", ".", "!", "|"}

\* The number of backslashes that end just before position i of str
RECURSIVE BackslashesBefore(_, _)
BackslashesBefore(str, i) ==
  IF i > 1 /\ str[i - 1] = "\\" THEN 1 + BackslashesBefore(str, i - 1) ELSE 0

\* C10: in the text markdownEscape returns, every protected character comes
\* right after a backslash that is not itself escaped (the backslashes before
\* it are odd in number), and no < or > is left.
C10_NoUnescapedProtected ==
  mdPc = "returned" =>
    \A i \in 1..Len(escaped) :
      /\ escaped[i] \in Protected => BackslashesBefore(escaped, i) % 2 = 1
      /\ escaped[i] \notin {"<", ">"}

\* What JSON.parse makes of the rule text of the row
Parsed == JSONparse(flagRow["JsonLogic"])

\* C7: getLogicFlags returns no flag for a rule text that is blank or does
\* not parse, "disabled" for one whose parsed value is falsy, and "dev only"
\* for the equality of "dev" and the variable server.env in either order.
C7_Classification ==
  (flagPc = "returned" /\ "JsonLogic" \in DOMAIN flagRow) =>
    /\ (IsBlank(flagRow["JsonLogic"]) \/ ~Parsed.ok) => logicFlags = null
    /\ (~IsBlank(flagRow["JsonLogic"]) /\ Parsed.ok /\ Falsy(Parsed.val))
         => logicFlags = "disabled"
    /\ (Parsed.ok /\ Parsed.val \in {DevFirst, VarFirst})
         => logicFlags = "dev only"

C7_Witness ==
  /\ flagPc = "returned"
  /\ "JsonLogic" \in DOMAIN flagRow
  /\ Parsed.ok
  /\ Parsed.val = VarFirst
  /\ flagRow["JsonLogic"] # JSONstringify(VarFirst)
  /\ logicFlags = "dev only"

\* A parsed conjunction: an object whose "and" member is an operand list
IsConjunction(value) ==
  /\ value.t = "object"
  /\ \E p \in 1..Len(value.keys) :
       value.keys[p] = "\"and\"" /\ value.items[p].t = "array"

Operands(value) ==
  value.items[CHOOSE p \in 1..Len(value.keys) : value.keys[p] = "\"and\""].items

\* C8: for a rule that parses to a conjunction, getLogicFlags returns
\* "dev only" exactly when one of the top-level operands is the dev check in
\* one of its two orders, and no flag otherwise.
C8_ConjunctionDevOnly ==
  (/\ flagPc = "returned"
   /\ "JsonLogic" \in DOMAIN flagRow
   /\ Parsed.ok
   /\ IsConjunction(Parsed.val)) =>
    LET args == Operands(Parsed.val)
    IN IF \E p \in 1..Len(args) : args[p] \in {DevFirst, VarFirst}
         THEN logicFlags = "dev only"
         ELSE logicFlags = null

\* The UUIDs of the rows a table is keyed by
KeysOfTable(table) ==
  {table[i]["UUID"] : i \in {j \in 1..Len(table) :
                               "UUID" \in DOMAIN table[j] /\ table[j]["UUID"] # <<>>}}

BaseKeys == KeysOfTable(tableA)
HeadKeys == KeysOfTable(tableB)
AddedKeys == Range(activityDiff.result.added.keys)
RemovedKeys == Range(activityDiff.result.removed.keys)
ModifiedKeys == Range(activityDiff.result.modified.keys)

\* The row of a table with the given UUID
RowOf(table, key) ==
  table[CHOOSE i \in 1..Len(table) :
          "UUID" \in DOMAIN table[i] /\ table[i]["UUID"] = key]

PairwiseDisjoint ==
  /\ AddedKeys \cap RemovedKeys = {}
  /\ AddedKeys \cap ModifiedKeys = {}
  /\ RemovedKeys \cap ModifiedKeys = {}

ColumnsDiffer(key) ==
  LET a == RowOf(tableA, key)
      b == RowOf(tableB, key)
  IN \E column \in DOMAIN a \cap DOMAIN b :
       ReplaceCrLf(a[column]) # ReplaceCrLf(b[column])

\* A path that some record of the file diff has as its from or its to
InFileDiff(file) ==
  /\ parsedDiffResult.def
  /\ \E i \in 1..Len(parsedDiffResult.s) :
       \/ parsedDiffResult.s[i].from = Some(file)
       \/ parsedDiffResult.s[i].to = Some(file)

\* The media-reference set of a task file, empty for one without an entry
MediaSetOf(taskFile) ==
  IF taskFile \in DOMAIN usedMediaFileReferences
    THEN Range(usedMediaFileReferences[taskFile])
    ELSE {}

\* (b): the Action Link of the head row, or a media file of that task, is in
\* the file diff
FilesChanged(key) ==
  LET b == RowOf(tableB, key)
  IN /\ "Action Link" \in DOMAIN b
     /\ \E file \in {b["Action Link"]} \cup MediaSetOf(b["Action Link"]) :
          InFileDiff(file)

\* C2: once getActivityChanges has run, a key of both snapshots is in
\* modified exactly when (a) a column differs beyond line endings or (b) the
\* file diff has the head row's Action Link or a media file of that task; a
\* common key with neither is in no part.
C2_ModifiedExactlyWhenChanged ==
  diffPc \in {"returned", "threw"} =>
    \A key \in BaseKeys \cap HeadKeys :
      /\ key \in ModifiedKeys <=> (ColumnsDiffer(key) \/ FilesChanged(key))
      /\ ~(ColumnsDiffer(key) \/ FilesChanged(key))
           => key \notin AddedKeys \cup RemovedKeys \cup ModifiedKeys

\* What C2 says, of the calls that return
ModifiedExactlyWhenChangedIfReturned ==
  diffPc = "returned" => C2_ModifiedExactlyWhenChanged

\* C3: a table diffed against itself, with no media references and no file
\* diff, has nothing added, nothing removed and nothing modified, also when
\* rows lack a UUID or repeat one.
C3_SelfDiffEmpty ==
  (/\ diffPc # "call"
   /\ tableB = tableA
   /\ usedMediaFileReferences = <<>>
   /\ ~parsedDiffResult.def) =>
    /\ diffPc = "returned"
    /\ AddedKeys = {}
    /\ RemovedKeys = {}
    /\ ModifiedKeys = {}

C3_Witness ==
  /\ diffPc = "returned"
  /\ tableB = tableA
  /\ Len(tableA) = 2
  /\ tableA[1] # tableA[2]
  /\ "UUID" \in DOMAIN tableA[1]
  /\ "UUID" \in DOMAIN tableA[2]
  /\ tableA[1]["UUID"] = tableA[2]["UUID"]
  /\ tableA[1]["UUID"] # <<>>

\* The lines pushed while the entry of a key was rendered
LinesOf(key) ==
  SelectSeq(activityDiff.chunks, LAMBDA chunk : chunk.of = key)

Count(lines, line) == Cardinality({p \in 1..Len(lines) : lines[p].line = line})

\* C9: with a file diff, the entry of every modified key has a "Task <path>
\* changed" line exactly when the head row's Action Link is in the file diff,
\* and one "Media <path> changed" line for each media file of that task that
\* is in the file diff; a key whose columns are the same and whose Action
\* Link is in the file diff is rendered as modified, with the Task line.
C9_TaskAndMediaLines ==
  (diffPc \in {"returned", "threw"} /\ parsedDiffResult.def) =>
    /\ \A key \in ModifiedKeys :
         LET b == RowOf(tableB, key)
             link == IF "Action Link" \in DOMAIN b THEN b["Action Link"] ELSE <<>>
         IN /\ Count(LinesOf(key), TaskLine(link))
                 = IF InFileDiff(link) THEN 1 ELSE 0
            /\ \A media \in {Video1} :
                 Count(LinesOf(key), MediaLine(media))
                   = IF media \in MediaSetOf(link) /\ InFileDiff(media)
                       THEN 1 ELSE 0
    /\ \A key \in BaseKeys \cap HeadKeys :
         LET b == RowOf(tableB, key)
         IN (/\ ~ColumnsDiffer(key)
             /\ "Action Link" \in DOMAIN b
             /\ InFileDiff(b["Action Link"])) =>
              /\ key \in ModifiedKeys
              /\ Count(LinesOf(key), TaskLine(b["Action Link"])) = 1

\* What C9 says, of the reports that are returned
TaskAndMediaLinesIfReturned ==
  diffPc = "returned" => C9_TaskAndMediaLines

\* The files of the group logged under the message; none where no group was
Reported(message) ==
  UNION {Range(log[g].files) : g \in {h \in 1..Len(log) : log[h].message = message}}

\* The run went through the reference check
CheckRan == pc = "done" /\ caught = "none"

\* The non-empty Action Link cells of the head manifest, as written
ActionLinks ==
  {headActivities[r]["Action Link"] :
     r \in {q \in 1..Len(headActivities) :
              "Action Link" \in DOMAIN headActivities[q]}} \ {<<>>}

\* The non-empty pieces of magic_tasks that commas, or its ends, delimit
Whitelist ==
  {SubSeq(magicTasks, i, j) : i \in 1..Len(magicTasks), j \in 1..Len(magicTasks)}
  \cap {SubSeq(magicTasks, i, j) :
          <<i, j>> \in {ij \in (1..Len(magicTasks)) \X (1..Len(magicTasks)) :
                          /\ ij[1] <= ij[2]
                          /\ \A k \in ij[1]..ij[2] : magicTasks[k] # ","
                          /\ ij[1] = 1 \/ magicTasks[ij[1] - 1] = ","
                          /\ ij[2] = Len(magicTasks) \/ magicTasks[ij[2] + 1] = ","}}

Discovered == Range(taskFiles)

WhitelistHonoured ==
  \A path \in Whitelist :
    /\ path \in Discovered => path \notin Reported("Unused task files")
    /\ path \notin Discovered => path \in Reported("Missing task files")

\* C5 as stated: where the reference check ran, with used = the Action Link
\* values of the head manifest and the whitelist, the missing task files
\* reported are used - discovered, the unused ones discovered - used, and a
\* whitelisted path is not reported unused where it exists and is reported
\* missing where it does not.
C5_RawLinksUsed ==
  CheckRan =>
    /\ Reported("Missing task files") = (ActionLinks \cup Whitelist) \ Discovered
    /\ Reported("Unused task files") = Discovered \ (ActionLinks \cup Whitelist)
    /\ WhitelistHonoured

DecodedLinks == {decodeURIComponent(link).s : link \in ActionLinks}

\* C5, amended: used is the URI-decoded Action Link values and the whitelist
\* as written; a run that an error ended reports no set.
C5_DecodedLinksUsed ==
  /\ CheckRan =>
       /\ Reported("Missing task files") = (DecodedLinks \cup Whitelist) \ Discovered
       /\ Reported("Unused task files") = Discovered \ (DecodedLinks \cup Whitelist)
       /\ WhitelistHonoured
  /\ caught # "none" => log = <<>>

\* A link with an escape names a file on disk, one whitelisted path is on disk
\* and another is not
C5_Witness ==
  /\ CheckRan
  /\ TaskEncodedB \in ActionLinks
  /\ TaskB \in Discovered
  /\ Whitelist \cap Discovered # {}
  /\ Whitelist \ Discovered # {}

MissingReported ==
  Reported("Missing task files") # {} \/ Reported("Missing media files") # {}

\* C6 as stated: a run ends marked failed exactly when missing task files or
\* missing media files were found.
C6_FailedIffMissing == pc = "done" => (failed <=> MissingReported)

\* C6, amended: a run ends marked failed exactly when an error ended it or
\* missing task files or missing media files were found; unused files and
\* missing article files alone do not mark it failed.
C6_FailedIffErrorOrMissing ==
  pc \in {"done", "crashed"} =>
    (failed <=> (caught # "none" \/ pc = "crashed" \/ MissingReported))

\* A run that found unused task, media and article files and is not marked
\* failed
C6_Witness ==
  /\ pc = "done"
  /\ ~failed
  /\ Reported("Unused task files") # {}
  /\ Reported("Unused media files") # {}
  /\ Reported("Unused article files") # {}

\* A run that found a missing article file alone and is not marked failed
C6_MissingArticleAlone ==
  pc = "done" /\ ~failed /\ Reported("Missing article files") # {}

\* The run is over: it returned, or the process died
Ended == pc \in {"done", "crashed"}

\* The last git command the run started did not give what was asked of it
VcsFailed == vcs \in {"exits", "stream error", "spawn error"}

\* What the run lets the user see: the names of the groups it logged and the
\* message it failed with
VisibleMessages ==
  {log[g].message : g \in 1..Len(log)}
  \cup (IF caught # "none" THEN {caught}
        ELSE IF failed /\ pc = "done" THEN {"missing files"} ELSE {})

\* The one message of the program that tells of a git command: the reason
\* streamToBuffer rejects with (src/diff.ts 50)
VcsMessageEmitted == "Error reading stream" \in VisibleMessages

\* No line of the report says that a task file or a media file changed
NoChangedAnnotation ==
  \A p \in 1..Len(activityDiff.chunks) :
    LET line == activityDiff.chunks[p].line
    IN line = <<>> \/ line[1] \notin {"   - **Task ", "   - **Media "}

\* C11: when the last git command of a run fails (unknown revision, not a
\* repository, the command cannot be run or read), the run is not cut short:
\* it tells of the failure in a visible message, its report has no "Task ...
\* changed" or "Media ... changed" line, the two manifests are still compared
\* where a base revision was read, and the reference check runs to its end.
C11_VcsFailureRecovered ==
  (Ended /\ VcsFailed) =>
    /\ CheckRan
    /\ VcsMessageEmitted
    /\ NoChangedAnnotation
    /\ baseActivities.def => activityDiff # NoReport

\* What the code does where git exits without output: nothing tells of it,
\* the table or the file diff it should have printed is taken to be empty, no
\* line says that a file changed, and the activity diff raises no error
GitExitGoesUnnoticed ==
  (pc = "done" /\ vcs = "exits") =>
    /\ ~VcsMessageEmitted
    /\ NoChangedAnnotation
    /\ caught \notin {"TypeError", "Error reading stream"}
    /\ parsedDiffResult \in {Undefined, Some(<<>>)}

\* What the code does where git cannot be run or read: the run is cut short
\* before the reference check
GitErrorEndsRun ==
  (Ended /\ vcs \in {"stream error", "spawn error"}) =>
    /\ failed
    /\ log = <<>>
    /\ vcs = "spawn error" <=> pc = "crashed"

\* The number of rows of the table that have the UUID
Occurrences(table, uuid) ==
  Cardinality({p \in 1..Len(table) :
                 "UUID" \in DOMAIN table[p] /\ table[p]["UUID"] = uuid})

RepeatedKeys(table) == {uuid \in KeysOfTable(table) : Occurrences(table, uuid) > 1}

\* C12: the keyed table of a snapshot has no row without a UUID or with an
\* empty one and no row whose UUID another row of the snapshot has, and no
\* UUID that a snapshot repeats is among the added, removed or modified keys.
C12_RepeatedKeysExcluded ==
  diffPc = "returned" =>
    /\ \A table \in {tableA, tableB} :
         LET taskTable == getTaskTable(table)
         IN \A p \in 1..Len(taskTable.keys) :
              /\ taskTable.keys[p] # <<>>
              /\ "UUID" \in DOMAIN taskTable.vals[p]
              /\ taskTable.vals[p]["UUID"] = taskTable.keys[p]
              /\ Occurrences(table, taskTable.keys[p]) = 1
    /\ (AddedKeys \cup RemovedKeys \cup ModifiedKeys)
         \cap (RepeatedKeys(tableA) \cup RepeatedKeys(tableB)) = {}

\* The last row of the table that has the UUID
LastRowOf(table, uuid) ==
  table[CHOOSE p \in 1..Len(table) :
          /\ "UUID" \in DOMAIN table[p] /\ table[p]["UUID"] = uuid
          /\ \A q \in (p + 1)..Len(table) :
               ~("UUID" \in DOMAIN table[q] /\ table[q]["UUID"] = uuid)]

\* What getTaskTable does: the rows without a UUID or with an empty one are
\* left out, every other UUID is a key, and the row of a key is the last row
\* of the snapshot with that UUID
LastRowOfEachKeyKept ==
  diffPc = "returned" =>
    \A table \in {tableA, tableB} :
      LET taskTable == getTaskTable(table)
      IN /\ Range(taskTable.keys) = KeysOfTable(table)
         /\ Len(taskTable.keys) = Cardinality(KeysOfTable(table))
         /\ \A p \in 1..Len(taskTable.keys) :
              taskTable.vals[p] = LastRowOf(table, taskTable.keys[p])

\* What the comparison does with a UUID the head snapshot repeats: where the
\* base does not have it, it is added, with the last of its rows
RepeatedKeyCompared ==
  diffPc = "returned" =>
    \A uuid \in RepeatedKeys(tableB) \ KeysOfTable(tableA) :
      /\ uuid \in AddedKeys
      /\ Get(activityDiff.result.added, uuid) = LastRowOf(tableB, uuid)

\* A key of both snapshots whose columns are the same and whose head row has
\* an Action Link that is not empty, has no entry in the media-reference map
\* and is not in the file diff, while a file diff with a record is at hand
Unreferenced(key) ==
  LET b == RowOf(tableB, key)
  IN /\ parsedDiffResult.def
     /\ Len(parsedDiffResult.s) >= 1
     /\ ~ColumnsDiffer(key)
     /\ "Action Link" \in DOMAIN b
     /\ b["Action Link"] # <<>>
     /\ b["Action Link"] \notin DOMAIN usedMediaFileReferences
     /\ ~InFileDiff(b["Action Link"])

\* C13: getActivityChanges returns for every input, and a key of both
\* snapshots with unchanged columns whose Action Link has no entry in the
\* media-reference map and is not in the file diff is not among the modified.
C13_ReturnsForEveryInput ==
  diffPc # "call" =>
    /\ diffPc = "returned"
    /\ \A key \in BaseKeys \cap HeadKeys :
         Unreferenced(key) => key \notin ModifiedKeys

\* What the code does: it raises a TypeError exactly when some key is such a
\* key and a record of the file diff names a file
RaisesExactlyWhenUnreferenced ==
  diffPc # "call" =>
    (diffPc = "threw" <=>
       /\ \E key \in BaseKeys \cap HeadKeys : Unreferenced(key)
       /\ \E i \in 1..Len(parsedDiffResult.s) :
            Truthy(parsedDiffResult.s[i].from) \/ Truthy(parsedDiffResult.s[i].to))

=============================================================================
